---------------------------- MODULE Spec2Model ----------------------------
(***************************************************************************)
(* Desirability functions (Derringer-Suich 1980, Jeong-Kim 2006) of        *)
(* desirability_functions.py, modelled in exact rational arithmetic.       *)
(*                                                                         *)
(* A number is a pair <<n, d>> in lowest terms with d > 0.  The outcome of *)
(* an expression or of a call is a record [kind, val]: kind "value" with   *)
(* the number computed, or kind "ZeroDivisionError" when Python raises.    *)
(* Response values and range limits are drawn from the integers 0..MaxY,   *)
(* shape parameters from the integers -1..MaxR (r <= 0 is the invalid      *)
(* shape), gamma from the multiples of 1/(2*GammaHalf) inside (0,1).       *)
(* The aggregate is the real number rad^(1/root), kept as the record       *)
(* [kind, val, root] with val the rational radicand; desirabilities are    *)
(* the multiples of 1/DDen in [0,1] and weights the integers 0..MaxW.      *)
(* Floating-point rounding is outside the model.                           *)
(***************************************************************************)
EXTENDS Integers, Naturals, Sequences, FiniteSets

VARIABLES fn, y, y_min, y_max, y_mid, gamma, r1, r2, result,
          desirabilities, weights, overall, prev

vars == <<fn, y, y_min, y_max, y_mid, gamma, r1, r2, result,
          desirabilities, weights, overall, prev>>

---------------------------------------------------------------------------
(* Bounds of the input domain *)

MaxY == 3

MaxR == 2

GammaHalf == 2

MaxLen == 3

MaxW == 2

DDen == 2

MaxC == 2

---------------------------------------------------------------------------
(* Exact rational numbers *)

Abs(n) == IF n < 0 THEN -n ELSE n

RECURSIVE GCD(_, _)
GCD(a, b) == IF b = 0 THEN a ELSE GCD(b, a % b)

(* n/d in lowest terms with a positive denominator (d # 0) *)
Norm(n, d) ==
    LET g == GCD(Abs(n), Abs(d))
        s == IF d < 0 THEN -1 ELSE 1
    IN  <<(s * n) \div g, (s * d) \div g>>

Zero == <<0, 1>>

One == <<1, 1>>

Whole(n) == <<n, 1>>

Less(p, q) == p[1] * q[2] < q[1] * p[2]

Leq(p, q) == p[1] * q[2] <= q[1] * p[2]

RECURSIVE IntPow(_, _)
IntPow(b, e) == IF e = 0 THEN 1 ELSE b * IntPow(b, e - 1)

---------------------------------------------------------------------------
(* Outcomes of Python expressions *)

NoVal == <<0, 0>>

Num(q) == [kind |-> "value", val |-> q]

ZeroDivisionError == [kind |-> "ZeroDivisionError", val |-> NoVal]

NoResult == [kind |-> "none", val |-> NoVal]

IsValue(o) == o.kind = "value"

(* a + b *)
Add(a, b) ==
    IF ~IsValue(a) THEN a ELSE IF ~IsValue(b) THEN b
    ELSE Num(Norm(a.val[1] * b.val[2] + b.val[1] * a.val[2], a.val[2] * b.val[2]))

(* a - b *)
Sub(a, b) ==
    IF ~IsValue(a) THEN a ELSE IF ~IsValue(b) THEN b
    ELSE Num(Norm(a.val[1] * b.val[2] - b.val[1] * a.val[2], a.val[2] * b.val[2]))

(* a * b *)
Mul(a, b) ==
    IF ~IsValue(a) THEN a ELSE IF ~IsValue(b) THEN b
    ELSE Num(Norm(a.val[1] * b.val[1], a.val[2] * b.val[2]))

(* a / b: a zero divisor raises *)
TrueDiv(a, b) ==
    IF ~IsValue(a) THEN a ELSE IF ~IsValue(b) THEN b
    ELSE IF b.val[1] = 0 THEN ZeroDivisionError
    ELSE Num(Norm(a.val[1] * b.val[2], a.val[2] * b.val[1]))

(* a ** r for an integer r: x**0 is 1 (also 0**0), 0 to a negative power   *)
(* raises, x**(-k) is 1/(x**k)                                             *)
Pow(a, r) ==
    IF ~IsValue(a) THEN a
    ELSE IF r >= 0 THEN Num(Norm(IntPow(a.val[1], r), IntPow(a.val[2], r)))
    ELSE IF a.val[1] = 0 THEN ZeroDivisionError
    ELSE Num(Norm(IntPow(a.val[2], -r), IntPow(a.val[1], -r)))

---------------------------------------------------------------------------
(* The transforms *)

(* one_sided_desirability with the offset y_min dropped from the numerator *)
one_sided_no_offset(yv, ymin, ymax, r) ==
    IF yv < ymin THEN Num(Zero)
    ELSE IF yv > ymax THEN Num(One)
    ELSE Pow(TrueDiv(Num(Whole(yv)), Num(Whole(ymax - ymin))), r)

one_sided_desirability(yv, ymin, ymax, r) ==
    IF yv < ymin THEN Num(Zero)
    ELSE IF yv > ymax THEN Num(One)
    ELSE Pow(TrueDiv(Num(Whole(yv - ymin)), Num(Whole(ymax - ymin))), r)

negative_one_sided_desirability(yv, ymin, ymax, r) ==
    IF yv < ymin THEN Num(One)
    ELSE IF yv > ymax THEN Num(Zero)
    ELSE Pow(TrueDiv(Num(Whole(ymax - yv)), Num(Whole(ymax - ymin))), r)

(* two_sided_desirability with the left ramp scaled by the whole range *)
two_sided_full_range(yv, ymin, ymax, ytarget, ra, rb) ==
    IF yv < ymin \/ yv > ymax THEN Num(Zero)
    ELSE IF yv <= ytarget
         THEN Pow(TrueDiv(Num(Whole(yv - ymin)), Num(Whole(ymax - ymin))), ra)
         ELSE Pow(TrueDiv(Num(Whole(ymax - yv)), Num(Whole(ymax - ytarget))), rb)

two_sided_desirability(yv, ymin, ymax, ytarget, ra, rb) ==
    IF yv < ymin \/ yv > ymax THEN Num(Zero)
    ELSE IF yv <= ytarget
         THEN Pow(TrueDiv(Num(Whole(yv - ymin)), Num(Whole(ytarget - ymin))), ra)
         ELSE Pow(TrueDiv(Num(Whole(ymax - yv)), Num(Whole(ymax - ytarget))), rb)

(* first segment of segmented_one_sided_desirability (y_min to y_mid) *)
SegFirst(yv, ymin, ymid, g, ra) ==
    Mul(Num(g), Pow(TrueDiv(Num(Whole(yv - ymin)), Num(Whole(ymid - ymin))), ra))

(* second segment of segmented_one_sided_desirability (y_mid to y_max) *)
SegSecond(yv, ymax, ymid, g, rb) ==
    Add(Sub(Num(One), Num(g)),
        Mul(Sub(Num(One), Num(g)),
            Pow(TrueDiv(Num(Whole(yv - ymid)), Num(Whole(ymax - ymid))), rb)))

(* segmented_one_sided_desirability with the midpoint given to the second piece *)
segmented_one_sided_strict_mid(yv, ymin, ymax, ymid, g, ra, rb) ==
    IF yv < ymin THEN Num(Zero)
    ELSE IF yv > ymax THEN Num(One)
    ELSE IF yv < ymid THEN SegFirst(yv, ymin, ymid, g, ra)
    ELSE SegSecond(yv, ymax, ymid, g, rb)

segmented_one_sided_desirability(yv, ymin, ymax, ymid, g, ra, rb) ==
    IF yv < ymin THEN Num(Zero)
    ELSE IF yv > ymax THEN Num(One)
    ELSE IF yv <= ymid THEN SegFirst(yv, ymin, ymid, g, ra)
    ELSE SegSecond(yv, ymax, ymid, g, rb)

(* NegFirst with the ramp left rising (the complement 1 - ... dropped) *)
NegFirst_rising(d, dmin, dmid, g, ra) ==
    Add(Num(g),
        Mul(Sub(Num(One), Num(g)),
            Pow(TrueDiv(Num(Whole(d - dmin)), Num(Whole(dmid - dmin))), ra)))

(* first segment of segmented_negative_one_sided_desirability *)
NegFirst(d, dmin, dmid, g, ra) ==
    Add(Num(g),
        Mul(Sub(Num(One), Num(g)),
            Pow(Sub(Num(One), TrueDiv(Num(Whole(d - dmin)), Num(Whole(dmid - dmin)))), ra)))

(* second segment of segmented_negative_one_sided_desirability *)
NegSecond(d, dmax, dmid, g, rb) ==
    Sub(Num(g),
        Mul(Num(g), Pow(TrueDiv(Num(Whole(d - dmid)), Num(Whole(dmax - dmid))), rb)))

segmented_negative_one_sided_desirability(d, dmin, dmax, dmid, g, ra, rb) ==
    IF d < dmin THEN Num(One)
    ELSE IF d > dmax THEN Num(Zero)
    ELSE IF d <= dmid THEN NegFirst(d, dmin, dmid, g, ra)
    ELSE NegSecond(d, dmax, dmid, g, rb)

---------------------------------------------------------------------------
(* The aggregator *)

Min(a, b) == IF a < b THEN a ELSE b

LCM(a, b) == (a * b) \div GCD(a, b)

(* the real number q^(1/k); 0 and 1 are their own roots *)
Radical(q, k) ==
    [kind |-> "value", val |-> q, root |-> IF q = Zero \/ q = One THEN 1 ELSE k]

AggZeroDivisionError == [kind |-> "ZeroDivisionError", val |-> NoVal, root |-> 0]

NoOverall == [kind |-> "none", val |-> NoVal, root |-> 0]

(* weights=None *)
None == [given |-> FALSE, w |-> <<>>]

Given(ws) == [given |-> TRUE, w |-> ws]

(* sum(weights) *)
RECURSIVE sum(_)
sum(ws) == IF ws = <<>> THEN 0 ELSE Head(ws) + sum(Tail(ws))

(* NormalizeWeights with the division by the sum left out *)
NormalizeWeights_raw(ws, weights_sum) ==
    [i \in 1..Len(ws) |-> Norm(ws[i], 1)]

(* [w/weights_sum for w in weights]: each weight as a fraction of the sum *)
NormalizeWeights(ws, weights_sum) ==
    [i \in 1..Len(ws) |-> Norm(ws[i], weights_sum)]

(* d**w for a rational d >= 0 and a rational w = p/q >= 0: d**0 is 1,      *)
(* also for d = 0                                                          *)
RealPow(d, w) ==
    Radical(Norm(IntPow(d[1], w[1]), IntPow(d[2], w[1])), w[2])

(* the product of two reals a.val^(1/a.root) and b.val^(1/b.root) *)
RadMul(a, b) ==
    LET l  == LCM(a.root, b.root)
        ea == l \div a.root
        eb == l \div b.root
    IN  Radical(Norm(IntPow(a.val[1], ea) * IntPow(b.val[1], eb),
                     IntPow(a.val[2], ea) * IntPow(b.val[2], eb)), l)

(* np.prod of the first n terms; the empty product is 1 *)
RECURSIVE prod(_, _)
prod(terms, n) ==
    IF n = 0 THEN Radical(One, 1) ELSE RadMul(prod(terms, n - 1), terms[n])

geometric_mean_desirability(ds, wts) ==
    LET ws          == IF ~wts.given THEN [i \in 1..Len(ds) |-> 1] ELSE wts.w
        weights_sum == sum(ws)
        n           == Min(Len(ds), Len(ws))
    IN  IF ws # <<>> /\ weights_sum = 0 THEN AggZeroDivisionError
        ELSE LET nw    == NormalizeWeights(ws, weights_sum)
                 terms == [i \in 1..n |-> RealPow(ds[i], nw[i])]
             IN  prod(terms, n)

---------------------------------------------------------------------------
(* Input domains *)

YSet == 0..MaxY

RSet == -1..MaxR

GammaSet == {Norm(k, 2 * GammaHalf) : k \in 1..(2 * GammaHalf - 1)}

DSet == {Norm(k, DDen) : k \in 0..DDen}

SeqsUpTo(S, lo, hi) == UNION {[1..n -> S] : n \in lo..hi}

---------------------------------------------------------------------------
(* Transform calls *)

Init ==
    /\ fn = "none"
    /\ y \in YSet
    /\ y_min \in YSet
    /\ y_max \in YSet
    /\ y_mid \in YSet
    /\ gamma \in GammaSet
    /\ r1 \in RSet
    /\ r2 \in RSet
    /\ result = NoResult
    /\ desirabilities = <<>>
    /\ weights = None
    /\ overall = NoOverall
    /\ prev = NoOverall

Inputs == <<y, y_min, y_max, y_mid, gamma, r1, r2>>

OneSided ==
    /\ fn = "none"
    /\ fn' = "one_sided"
    /\ result' = one_sided_desirability(y, y_min, y_max, r1)
    /\ UNCHANGED <<Inputs, desirabilities, weights, overall, prev>>

NegativeOneSided ==
    /\ fn = "none"
    /\ fn' = "negative_one_sided"
    /\ result' = negative_one_sided_desirability(y, y_min, y_max, r1)
    /\ UNCHANGED <<Inputs, desirabilities, weights, overall, prev>>

TwoSided ==
    /\ fn = "none"
    /\ fn' = "two_sided"
    /\ result' = two_sided_desirability(y, y_min, y_max, y_mid, r1, r2)
    /\ UNCHANGED <<Inputs, desirabilities, weights, overall, prev>>

SegmentedOneSided ==
    /\ fn = "none"
    /\ fn' = "segmented_one_sided"
    /\ result' = segmented_one_sided_desirability(y, y_min, y_max, y_mid, gamma, r1, r2)
    /\ UNCHANGED <<Inputs, desirabilities, weights, overall, prev>>

SegmentedNegativeOneSided ==
    /\ fn = "none"
    /\ fn' = "segmented_negative_one_sided"
    /\ result' = segmented_negative_one_sided_desirability(y, y_min, y_max, y_mid, gamma, r1, r2)
    /\ UNCHANGED <<Inputs, desirabilities, weights, overall, prev>>

Next ==
    \/ OneSided
    \/ NegativeOneSided
    \/ TwoSided
    \/ SegmentedOneSided
    \/ SegmentedNegativeOneSided

Spec == Init /\ [][Next]_vars

---------------------------------------------------------------------------
(* Aggregator calls *)

InitAgg ==
    /\ fn = "none"
    /\ y = 0 /\ y_min = 0 /\ y_max = 0 /\ y_mid = 0
    /\ gamma = Norm(1, 2) /\ r1 = 1 /\ r2 = 1
    /\ result = NoResult
    /\ desirabilities \in SeqsUpTo(DSet, 1, MaxLen)
    /\ weights \in {None} \cup {Given(ws) : ws \in SeqsUpTo(0..MaxW, 0, MaxLen)}
    /\ overall = NoOverall
    /\ prev = NoOverall

Aggregate ==
    /\ fn = "none"
    /\ fn' = "geometric_mean"
    /\ overall' = geometric_mean_desirability(desirabilities, weights)
    /\ UNCHANGED <<Inputs, result, desirabilities, weights, prev>>

(* the same call again with every weight multiplied by c *)
Rescale(c) ==
    /\ fn = "geometric_mean"
    /\ weights.given
    /\ fn' = "rescaled"
    /\ weights' = Given([i \in 1..Len(weights.w) |-> c * weights.w[i]])
    /\ prev' = overall
    /\ overall' = geometric_mean_desirability(desirabilities, weights')
    /\ UNCHANGED <<Inputs, result, desirabilities>>

(* the same call again with the equal weights [c, ..., c] left out *)
OmitWeights ==
    /\ fn = "geometric_mean"
    /\ weights.given
    /\ Len(weights.w) = Len(desirabilities)
    /\ \E c \in 1..MaxW : \A i \in 1..Len(weights.w) : weights.w[i] = c
    /\ fn' = "omitted"
    /\ weights' = None
    /\ prev' = overall
    /\ overall' = geometric_mean_desirability(desirabilities, weights')
    /\ UNCHANGED <<Inputs, result, desirabilities>>

NextAgg ==
    \/ Aggregate
    \/ \E c \in 1..MaxC : Rescale(c)
    \/ OmitWeights

SpecAgg == InitAgg /\ [][NextAgg]_vars

---------------------------------------------------------------------------
(* Parameter contracts *)

Half == Norm(1, 2)

OneSidedFns == {"one_sided", "negative_one_sided"}

MidFns == {"two_sided", "segmented_one_sided", "segmented_negative_one_sided"}

(* y_min < y_max and r > 0; with a target or midpoint, y_min < y_mid <     *)
(* y_max and r1, r2 > 0 (gamma is always drawn from (0,1))                 *)
ValidParams ==
    \/ fn \in OneSidedFns /\ y_min < y_max /\ r1 > 0
    \/ fn \in MidFns /\ y_min < y_mid /\ y_mid < y_max /\ r1 > 0 /\ r2 > 0

InUnit(o) == IsValue(o) /\ Leq(Zero, o.val) /\ Leq(o.val, One)

(* weights omitted, or as many non-negative weights as desirabilities with *)
(* a positive sum                                                          *)
Admissible ==
    weights.given =>
        /\ Len(weights.w) = Len(desirabilities)
        /\ \A i \in 1..Len(weights.w) : weights.w[i] >= 0
        /\ sum(weights.w) > 0

IsZero(o) == o.kind = "value" /\ o.val = Zero

IsOne(o) == o.kind = "value" /\ o.val = One

---------------------------------------------------------------------------
(* Claims *)

(* C1: for every response value and every valid parameter set, each of the *)
(* five transforms returns a value d with 0 <= d <= 1.                     *)
C1_OutputInUnitInterval ==
    (fn \in OneSidedFns \cup MidFns /\ ValidParams) => InUnit(result)

(* C2: geometric_mean_desirability returns 0 whenever at least one         *)
(* desirability is exactly 0, for every admissible weight vector (weight 0 *)
(* on the zero desirability included) and for omitted weights.             *)
C2_ZeroPropagates ==
    (/\ fn = "geometric_mean"
     /\ Admissible
     /\ \E i \in 1..Len(desirabilities) : desirabilities[i] = Zero)
    => IsZero(overall)

(* C3: geometric_mean_desirability returns 1 only if every desirability is *)
(* 1, and all-ones input yields exactly 1, for every admissible weight     *)
(* vector and for omitted weights.                                         *)
C3_OneOnlyIfAllOnes ==
    (fn = "geometric_mean" /\ Admissible)
    => (IsOne(overall) <=>
            \A i \in 1..Len(desirabilities) : desirabilities[i] = One)

(* C4: geometric_mean_desirability fails with a validation error, and      *)
(* returns no number, whenever the weights supplied are fewer or more than *)
(* the desirabilities.                                                     *)
C4_LengthMismatchRejected ==
    (/\ fn = "geometric_mean"
     /\ weights.given
     /\ Len(weights.w) # Len(desirabilities))
    => overall.kind = "ValidationError"

(* C5: every transform called with an invalid range (y_min >= y_max, or a  *)
(* target/midpoint not strictly inside it) or a non-positive shape         *)
(* parameter fails with a validation error: it returns no desirability and *)
(* does not fail with a division by zero instead.                          *)
C5_InvalidParametersRejected ==
    (fn \in OneSidedFns \cup MidFns /\ ~ValidParams)
    => result.kind = "ValidationError"

(* C6: the aggregate is unchanged when every weight of an admissible       *)
(* weight vector is multiplied by the same constant c > 0, and equal       *)
(* weights [c, ..., c] give the same aggregate as omitted weights.         *)
C6_WeightRescalingInvariant ==
    (fn \in {"rescaled", "omitted"} /\ (fn = "rescaled" => Admissible))
    => (prev.kind = "value" /\ overall = prev)

C6_Witness ==
    /\ fn = "rescaled"
    /\ Admissible
    /\ \E i \in 1..Len(weights.w) : weights.w[i] > MaxW
    /\ \E i, j \in 1..Len(weights.w) : weights.w[i] # weights.w[j]
    /\ overall.kind = "value"
    /\ ~IsZero(overall) /\ ~IsOne(overall)

(* C7: at the midpoint segmented_one_sided_desirability returns exactly    *)
(* gamma, taken from the first (inclusive) piece; the second piece starts  *)
(* at 1-gamma there and stays at or above it, so the function jumps by     *)
(* (1-gamma) - gamma at y_mid and the pieces meet only when gamma = 1/2.   *)
C7_SegmentedMidpointJump ==
    (fn = "segmented_one_sided" /\ ValidParams)
    => /\ y = y_mid =>
            /\ result = Num(gamma)
            /\ result = SegFirst(y_mid, y_min, y_mid, gamma, r1)
       /\ SegSecond(y_mid, y_max, y_mid, gamma, r2) = Sub(Num(One), Num(gamma))
       /\ Sub(SegSecond(y_mid, y_max, y_mid, gamma, r2),
              segmented_one_sided_desirability(y_mid, y_min, y_max, y_mid, gamma, r1, r2))
            = Sub(Sub(Num(One), Num(gamma)), Num(gamma))
       /\ (SegSecond(y_mid, y_max, y_mid, gamma, r2)
             = segmented_one_sided_desirability(y_mid, y_min, y_max, y_mid, gamma, r1, r2))
            <=> gamma = Half
       /\ (y_mid < y /\ y <= y_max) =>
            /\ IsValue(result)
            /\ Leq(Sub(Num(One), Num(gamma)).val, result.val)

C7_Witness ==
    /\ fn = "segmented_one_sided"
    /\ ValidParams
    /\ y = y_mid
    /\ gamma # Half
    /\ r1 > 1
    /\ result = Num(gamma)

(* C8: segmented_negative_one_sided_desirability is continuous at the      *)
(* midpoint: both piece formulas evaluated at d_mid yield gamma, and the   *)
(* function returns gamma at d_mid.                                        *)
C8_SegmentedNegativeContinuous ==
    (fn = "segmented_negative_one_sided" /\ ValidParams)
    => /\ NegFirst(y_mid, y_min, y_mid, gamma, r1) = Num(gamma)
       /\ NegSecond(y_mid, y_max, y_mid, gamma, r2) = Num(gamma)
       /\ y = y_mid => result = Num(gamma)

C8_Witness ==
    /\ fn = "segmented_negative_one_sided"
    /\ ValidParams
    /\ y = y_mid
    /\ gamma # Half
    /\ result = Num(gamma)

(* C9: with valid parameters two_sided_desirability returns exactly 1 at   *)
(* y = y_target, computed by the left (inclusive) branch, and 0 for every  *)
(* y <= y_min and every y >= y_max.                                        *)
C9_TwoSidedTargetAndEnds ==
    (fn = "two_sided" /\ ValidParams)
    => /\ y = y_mid =>
            /\ result = Num(One)
            /\ result = Pow(TrueDiv(Num(Whole(y - y_min)), Num(Whole(y_mid - y_min))), r1)
       /\ (y <= y_min \/ y >= y_max) => result = Num(Zero)

C9_Witness ==
    /\ fn = "two_sided"
    /\ ValidParams
    /\ y = y_max
    /\ r2 > 1
    /\ result = Num(Zero)

(* C10: with y_min < y_max and r > 0, one_sided_desirability returns       *)
(* exactly 0 at y_min and exactly 1 at y_max, negative_one_sided           *)
(* _desirability exactly 1 at y_min and exactly 0 at y_max: the in-range   *)
(* formula agrees with the clamp values.                                   *)
C10_BoundaryExactness ==
    /\ (fn = "one_sided" /\ ValidParams) =>
            /\ y = y_min => result = Num(Zero)
            /\ y = y_max => result = Num(One)
    /\ (fn = "negative_one_sided" /\ ValidParams) =>
            /\ y = y_min => result = Num(One)
            /\ y = y_max => result = Num(Zero)

C10_Witness ==
    /\ fn = "one_sided"
    /\ ValidParams
    /\ y = y_min
    /\ y_min > 0
    /\ r1 > 1
    /\ result = Num(Zero)

===========================================================================
